---- MODULE Spec2Model ----
(***************************************************************************)
(* A model of pyseqmatcher: the incremental DAWG builder of dawg.py        *)
(* (DawgNode, Dawg.insert, Dawg.finish, Dawg._minimize), the sparse        *)
(* Levenshtein automaton of levenshtein.py (start_state, step, is_match,   *)
(* can_match), levenshtein_distance and levenshtein_search.                *)
(*                                                                         *)
(* Strings are sequences of one-character strings.  Costs are naturals     *)
(* (the default cost of the tables is 1).  A DawgNode is its _id; the      *)
(* heap of nodes is the function `nodes` from ids to records.  Python's    *)
(* insertion-ordered dicts are sequences of <<key, value>> pairs.          *)
(***************************************************************************)
EXTENDS Integers, Sequences, FiniteSets, TLC

\* ------------------------------------------------------------------ bounds
\* Longest string (dictionary word, query, from_str, to_str) considered.
MaxLen == 2
\* Most successful inserts in one run of the builder.
MaxWords == 2
\* Largest search budget (max_distance) considered.
MaxBudget == 2
\* Largest entry of a cost table, and largest max_cost, considered.
MaxCost == 4

\* The alphabet, with Python's code-point order.
Chars == {"a", "b"}

Ord(c) == CASE c = "a" -> 97 [] c = "b" -> 98

Strings == UNION {[1..n -> Chars] : n \in 0..MaxLen}

Min(x, y) == IF x <= y THEN x ELSE y

\* ------------------------------------------------------------ str compare
\* Python's str comparison: lexicographic by code point, a proper prefix
\* is smaller.
RECURSIVE StrLess(_, _)
StrLess(s, t) ==
    IF t = <<>> THEN FALSE
    ELSE IF s = <<>> THEN TRUE
    ELSE IF Head(s) # Head(t) THEN Ord(Head(s)) < Ord(Head(t))
    ELSE StrLess(Tail(s), Tail(t))

StrLessEq(s, t) == s = t \/ StrLess(s, t)

\* ------------------------------------------------------------- state
VARIABLES
    nodes,            \* DawgNode heap: _id -> [final, edges, count]
    next_id,          \* DawgNode._next_id
    previous_word,    \* Dawg._previous_word
    unchecked_nodes,  \* Dawg._unchecked_nodes: seq of <<parent, char, child>>
    minimized_nodes,  \* Dawg._minimized_nodes: seq of [hash, key, value]
    inserted,         \* history: the words whose insert returned normally
    phase,            \* history: "building", "finished", "reopened"
    lastCall,         \* history: the last call made, how it ended, its result
    dist,             \* levenshtein_distance: the arguments and the result
    lev,              \* a SparseLevenshteinAutomaton and the state it is in
    run               \* levenshtein_search under way: its locals

dawgVars == <<nodes, next_id, previous_word, unchecked_nodes, minimized_nodes>>
histVars == <<inserted, phase>>
vars == <<nodes, next_id, previous_word, unchecked_nodes, minimized_nodes,
          inserted, phase, lastCall, dist, lev, run>>

\* The root is the first DawgNode made in the process.
root == 0

\* ------------------------------------------------------------- DawgNode
NewNode == [final |-> FALSE, edges |-> <<>>, count |-> 0]

\* dict lookup helpers over a sequence of <<key, value>> pairs.
HasKey(d, k) == \E i \in 1..Len(d) : d[i][1] = k

Get(d, k) == d[CHOOSE i \in 1..Len(d) : d[i][1] = k][2]

\* d[k] = v: an existing key keeps its place, a new key goes last.
Put(d, k, v) ==
    IF HasKey(d, k)
    THEN [i \in 1..Len(d) |-> IF d[i][1] = k THEN <<k, v>> ELSE d[i]]
    ELSE Append(d, <<k, v>>)

\* DawgNode.__str__: '1' or '0', then label and child id of every edge in
\* dict order.  The joined string is kept as the list of its parts.
RECURSIVE EdgeParts(_)
EdgeParts(edges) ==
    IF edges = <<>> THEN <<>>
    ELSE <<edges[1][1], edges[1][2]>> \o EdgeParts(Tail(edges))

Str(ns, n) ==
    <<(IF ns[n].final THEN "1" ELSE "0"), EdgeParts(ns[n].edges)>>

\* Mutant of Matches: nodes compared by identity, as they would be without
\* __hash__ and __eq__.
MatchesByIdentity(ns, e, child) == e.key = child

\* child in self._minimized_nodes / self._minimized_nodes[child]: the slot
\* is found by the hash stored at registration, then by identity or __eq__.
Matches(ns, e, child) ==
    /\ e.hash = Str(ns, child)
    /\ (e.key = child \/ Str(ns, e.key) = Str(ns, child))

InMinimized(ns, mn, child) == \E i \in 1..Len(mn) : Matches(ns, mn[i], child)

Lookup(ns, mn, child) ==
    mn[CHOOSE i \in 1..Len(mn) :
          /\ Matches(ns, mn[i], child)
          /\ \A j \in 1..(i - 1) : ~Matches(ns, mn[j], child)].value

\* ------------------------------------------------------------- Dawg
\* Mutant of Minimize: the loop stopped one entry early.
RECURSIVE MinimizeStopsEarly(_, _)
MinimizeStopsEarly(b, down_to) ==
    IF Len(b.unchecked) <= down_to + 1 THEN b
    ELSE
      LET e == b.unchecked[Len(b.unchecked)]
          parent == e[1]
          char == e[2]
          child == e[3]
          rest == SubSeq(b.unchecked, 1, Len(b.unchecked) - 1)
      IN IF InMinimized(b.nodes, b.minimized, child)
         THEN MinimizeStopsEarly(
                [nodes |-> [b.nodes EXCEPT ![parent].edges =
                               Put(@, char, Lookup(b.nodes, b.minimized, child))],
                 unchecked |-> rest,
                 minimized |-> b.minimized], down_to)
         ELSE MinimizeStopsEarly(
                [nodes |-> b.nodes,
                 unchecked |-> rest,
                 minimized |-> Append(b.minimized,
                                 [hash |-> Str(b.nodes, child),
                                  key |-> child, value |-> child])], down_to)

\* Mutant of Minimize: the entries handled are left on the frontier.
RECURSIVE MinimizeNoPopFrom(_, _, _)
MinimizeNoPopFrom(b, down_to, i) ==
    IF i <= down_to THEN b
    ELSE
      LET e == b.unchecked[i]
          parent == e[1]
          char == e[2]
          child == e[3]
      IN IF InMinimized(b.nodes, b.minimized, child)
         THEN MinimizeNoPopFrom(
                [b EXCEPT !.nodes[parent].edges =
                            Put(@, char, Lookup(b.nodes, b.minimized, child))],
                down_to, i - 1)
         ELSE MinimizeNoPopFrom(
                [b EXCEPT !.minimized =
                            Append(@, [hash |-> Str(b.nodes, child),
                                       key |-> child, value |-> child])],
                down_to, i - 1)

MinimizeNoPop(b, down_to) == MinimizeNoPopFrom(b, down_to, Len(b.unchecked))

\* Dawg._minimize(down_to) on the builder state b = [nodes, unchecked,
\* minimized]: from the last frontier entry down to index down_to.
RECURSIVE Minimize(_, _)
Minimize(b, down_to) ==
    IF Len(b.unchecked) <= down_to THEN b
    ELSE
      LET e == b.unchecked[Len(b.unchecked)]
          parent == e[1]
          char == e[2]
          child == e[3]
          rest == SubSeq(b.unchecked, 1, Len(b.unchecked) - 1)
      IN IF InMinimized(b.nodes, b.minimized, child)
         THEN Minimize(
                [nodes |-> [b.nodes EXCEPT ![parent].edges =
                               Put(@, char, Lookup(b.nodes, b.minimized, child))],
                 unchecked |-> rest,
                 minimized |-> b.minimized], down_to)
         ELSE Minimize(
                [nodes |-> b.nodes,
                 unchecked |-> rest,
                 minimized |-> Append(b.minimized,
                                 [hash |-> Str(b.nodes, child),
                                  key |-> child, value |-> child])], down_to)

\* Mutant of OrderingViolated: the guard written word < self._previous_word.
OrderingViolatedStrict(word, prev) == StrLess(word, prev)

\* The guard of insert: word <= self._previous_word.
OrderingViolated(word, prev) == StrLessEq(word, prev)

\* The common prefix loop of insert.
RECURSIVE CommonPrefix(_, _)
CommonPrefix(word, prev) ==
    IF word = <<>> \/ prev = <<>> \/ Head(word) # Head(prev) THEN 0
    ELSE 1 + CommonPrefix(Tail(word), Tail(prev))

\* The suffix loop of insert: one new node per character, from `node`.
\* a = [nodes, unchecked, next, node].
RECURSIVE AddSuffix(_, _)
AddSuffix(a, suffix) ==
    IF suffix = <<>> THEN a
    ELSE
      LET char == Head(suffix)
          next_node == a.next
          ns1 == [i \in (DOMAIN a.nodes) \cup {next_node} |->
                    IF i = next_node THEN NewNode ELSE a.nodes[i]]
          ns2 == [ns1 EXCEPT ![a.node].edges = Put(@, char, next_node)]
      IN AddSuffix(
           [nodes |-> ns2,
            unchecked |-> Append(a.unchecked, <<a.node, char, next_node>>),
            next |-> next_node + 1,
            node |-> next_node], Tail(suffix))

\* Mutant of AttachNode: the suffix always added at the root.
AttachNodeRoot(unchecked) == root

\* The node insert adds the suffix to: the root when the frontier is
\* empty, else the child of its last entry.
AttachNode(unchecked) ==
    IF Len(unchecked) = 0 THEN root ELSE unchecked[Len(unchecked)][3]

\* The body of Dawg.insert after the ordering check.
InsertBody(word) ==
    LET common_prefix == CommonPrefix(word, previous_word)
        m == Minimize([nodes |-> nodes, unchecked |-> unchecked_nodes,
                       minimized |-> minimized_nodes], common_prefix)
        node == AttachNode(m.unchecked)
        a == AddSuffix([nodes |-> m.nodes, unchecked |-> m.unchecked,
                        next |-> next_id, node |-> node],
                       SubSeq(word, common_prefix + 1, Len(word)))
    IN [nodes |-> [a.nodes EXCEPT ![a.node].final = TRUE],
        unchecked |-> a.unchecked,
        minimized |-> m.minimized,
        next |-> a.next]

\* DawgNode.count on node n: the cached value when it is non-zero, else the
\* sum over the node and its children, cached on the way.  Returns the heap
\* and the count.
RECURSIVE Count(_, _)
RECURSIVE CountEdges(_, _, _)

\* Mutant of CountEdges: a child counted as one word.
RECURSIVE CountEdgesOnePerChild(_, _, _)
CountEdgesOnePerChild(ns, edges, acc) ==
    IF edges = <<>> THEN [nodes |-> ns, count |-> acc]
    ELSE LET r == Count(ns, edges[1][2])
         IN CountEdgesOnePerChild(r.nodes, Tail(edges), acc + 1)

CountEdges(ns, edges, acc) ==
    IF edges = <<>> THEN [nodes |-> ns, count |-> acc]
    ELSE LET r == Count(ns, edges[1][2])
         IN CountEdges(r.nodes, Tail(edges), acc + r.count)

Count(ns, n) ==
    IF ns[n].count # 0 THEN [nodes |-> ns, count |-> ns[n].count]
    ELSE LET r == CountEdges(ns, ns[n].edges, IF ns[n].final THEN 1 ELSE 0)
         IN [nodes |-> [r.nodes EXCEPT ![n].count = r.count],
             count |-> r.count]

\* Dawg.node_count
node_count == Len(minimized_nodes) + 1

\* ------------------------------------------- SparseLevenshteinAutomaton
\* The cost tables of a call, as total functions: ic and dc on characters
\* (insert_cost.get(x, 1), delete_cost.get(x, 1)), rc on pairs of distinct
\* characters (replace_cost.get((x, y), 1)).
OffDiag == {p \in Chars \X Chars : p[1] # p[2]}

AllCosts == [ic : [Chars -> 0..MaxCost], dc : [Chars -> 0..MaxCost],
             rc : [OffDiag -> 0..MaxCost]]

\* The tables a call without cost arguments gets: every entry the default.
UnitCosts == [ic |-> [c \in Chars |-> 1], dc |-> [c \in Chars |-> 1],
              rc |-> [p \in OffDiag |-> 1]]

\* Mutant of ICost: the deletion table read for an insertion.
ICostFromDelete(costs, x) == costs.dc[x]

ICost(costs, x) == costs.ic[x]

DCost(costs, x) == costs.dc[x]

\* Mutant of RCost: every replacement free.
RCostFree(costs, x, y) == 0

\* Mutant of RCost: the pair looked up the other way round.
RCostSwapped(costs, x, y) == IF x # y THEN costs.rc[<<y, x>>] ELSE 0

\* self._rcost(x, y) of a table: 0 for identical characters.
RCost(costs, x, y) == IF x # y THEN costs.rc[<<x, y>>] ELSE 0

\* The loop of start_state from pattern index i (0-based) on.
RECURSIVE StartLoop(_, _, _, _, _, _)
StartLoop(str, d, costs, state, i, cost) ==
    IF i >= Len(str) THEN state
    ELSE LET c == cost + DCost(costs, str[i + 1])
         IN IF c <= d
            THEN StartLoop(str, d, costs, Put(state, i, c), i + 1, c)
            ELSE state

\* SparseLevenshteinAutomaton.start_state
StartState(str, d, costs) == StartLoop(str, d, costs, <<<<-1, 0>>>>, 0, 0)

\* Mutant of StepAnchor: the last key of the state taken for the anchor.
StepAnchorLastKey(d, costs, char, state) ==
    IF state # <<>>
    THEN LET key == state[Len(state)][1]
             cost == state[Len(state)][2] + ICost(costs, char)
         IN IF cost <= d THEN <<<<key, cost>>>> ELSE <<>>
    ELSE <<>>

\* Mutant of StepAnchor: the insertion cost of the character not added.
StepAnchorNoCost(d, costs, char, state) ==
    IF state # <<>>
    THEN LET key == state[1][1]
             cost == state[1][2]
         IN IF cost <= d THEN <<<<key, cost>>>> ELSE <<>>
    ELSE <<>>

\* The insertion branch of step on the first key of the state.
StepAnchor(d, costs, char, state) ==
    IF state # <<>>
    THEN LET key == state[1][1]
             cost == state[1][2] + ICost(costs, char)
         IN IF cost <= d THEN <<<<key, cost>>>> ELSE <<>>
    ELSE <<>>

\* The for loop of step over the keys of state, from its k-th key on.
RECURSIVE StepLoop(_, _, _, _, _, _, _)
StepLoop(str, d, costs, char, state, new_state, k) ==
    IF k > Len(state) THEN new_state
    ELSE
      LET idx == state[k][1]
      IN IF idx + 1 = Len(str)
         THEN StepLoop(str, d, costs, char, state, new_state, k + 1)
         ELSE
           LET c1 == state[k][2] + RCost(costs, char, str[idx + 2])
               c2 == IF HasKey(new_state, idx)
                     THEN Min(Get(new_state, idx) + DCost(costs, str[idx + 2]), c1)
                     ELSE c1
               c3 == IF HasKey(state, idx + 1)
                     THEN Min(Get(state, idx + 1) + ICost(costs, char), c2)
                     ELSE c2
           IN StepLoop(str, d, costs, char, state,
                       IF c3 <= d THEN Put(new_state, idx + 1, c3) ELSE new_state,
                       k + 1)

\* SparseLevenshteinAutomaton.step
Step(str, d, costs, char, state) ==
    StepLoop(str, d, costs, char, state, StepAnchor(d, costs, char, state), 1)

\* SparseLevenshteinAutomaton.can_match
CanMatch(state) == state # <<>>

\* Mutant of IsMatch: any live state taken for a match.
IsMatchAnyState(str, d, state) == state # <<>>

\* SparseLevenshteinAutomaton.is_match
IsMatch(str, d, state) ==
    (IF HasKey(state, Len(str) - 1) THEN Get(state, Len(str) - 1) ELSE d + 1) <= d

\* ------------------------------------------------- levenshtein_distance
RECURSIVE Feed(_, _, _, _, _)
Feed(str, d, costs, to_str, state) ==
    IF to_str = <<>> THEN state
    ELSE Feed(str, d, costs, Tail(to_str), Step(str, d, costs, Head(to_str), state))

\* levenshtein_distance: the value of state[len(from_str) - 1], or the
\* KeyError of that subscript.
Distance(from_str, to_str, max_cost, costs) ==
    LET d == (Len(from_str) + Len(to_str)) * max_cost
        state == Feed(from_str, d, costs, to_str, StartState(from_str, d, costs))
    IN IF HasKey(state, Len(from_str) - 1)
       THEN [raised |-> FALSE, value |-> Get(state, Len(from_str) - 1)]
       ELSE [raised |-> TRUE, value |-> -1]

\* --------------------------------------------------- levenshtein_search
\* The for loop over node.edges of one popped stack entry.
\* s = [stack, searched, matched, expanded].
RECURSIVE SearchEdges(_, _, _, _, _, _, _, _)
SearchEdges(ns, str, d, costs, s, word, state, edges) ==
    IF edges = <<>> THEN s
    ELSE
      LET char == edges[1][1]
          child == edges[1][2]
          new_state == Step(str, d, costs, char, state)
          new_word == Append(word, char)
          m == IF IsMatch(str, d, new_state) /\ ns[child].final
               THEN s.matched \cup {new_word} ELSE s.matched
          st == IF CanMatch(new_state)
                THEN Append(s.stack, <<new_word, child, new_state>>)
                ELSE s.stack
      IN SearchEdges(ns, str, d, costs,
                     [s EXCEPT !.matched = m, !.stack = st],
                     word, state, Tail(edges))

\* The while loop of levenshtein_search.
RECURSIVE SearchLoop(_, _, _, _, _)
SearchLoop(ns, str, d, costs, s) ==
    IF s.stack = <<>> THEN s
    ELSE
      LET top == s.stack[Len(s.stack)]
          word == top[1]
          node == top[2]
          state == top[3]
          popped == [s EXCEPT !.stack = SubSeq(s.stack, 1, Len(s.stack) - 1)]
      IN IF node \in s.searched
         THEN SearchLoop(ns, str, d, costs, popped)
         ELSE SearchLoop(ns, str, d, costs,
                SearchEdges(ns, str, d, costs,
                            [popped EXCEPT !.searched = @ \cup {node},
                                           !.expanded = Append(@, node)],
                            word, state, ns[node].edges))

\* levenshtein_search(graph, query_str, max_distance, ...)
Search(ns, query_str, max_distance, costs) ==
    SearchLoop(ns, query_str, max_distance, costs,
               [stack |-> <<<<(<<>>), root,
                              StartState(query_str, max_distance, costs)>>>>,
                searched |-> {}, matched |-> {}, expanded |-> <<>>])

\* -------------------------------------------------------------- actions
NoCall == [op |-> "none", arg |-> <<>>, raised |-> FALSE]

NoDist == [called |-> FALSE]

NoLev == [started |-> FALSE]

NoRun == [active |-> FALSE]

Init ==
    /\ nodes = [i \in {root} |-> NewNode]
    /\ next_id = 1
    /\ previous_word = <<>>
    /\ unchecked_nodes = <<>>
    /\ minimized_nodes = <<>>
    /\ inserted = {}
    /\ phase = "building"
    /\ lastCall = NoCall
    /\ dist = NoDist
    /\ lev = NoLev
    /\ run = NoRun

\* Dawg.insert(word) raising: nothing is written.
InsertRaise(word) ==
    /\ OrderingViolated(word, previous_word)
    /\ lastCall' = [op |-> "insert", arg |-> word, raised |-> TRUE]
    /\ UNCHANGED <<dawgVars, histVars, dist, lev, run>>

\* Dawg.insert(word) returning.
InsertOk(word) ==
    /\ ~OrderingViolated(word, previous_word)
    /\ Cardinality(inserted) < MaxWords
    /\ LET r == InsertBody(word)
       IN /\ nodes' = r.nodes
          /\ unchecked_nodes' = r.unchecked
          /\ minimized_nodes' = r.minimized
          /\ next_id' = r.next
    /\ previous_word' = word
    /\ inserted' = inserted \cup {word}
    /\ phase' = IF phase = "building" THEN "building" ELSE "reopened"
    /\ lastCall' = [op |-> "insert", arg |-> word, raised |-> FALSE]
    /\ UNCHANGED <<dist, lev, run>>

Insert == \E word \in Strings : InsertRaise(word) \/ InsertOk(word)

\* Dawg.finish()
Finish ==
    /\ LET m == Minimize([nodes |-> nodes, unchecked |-> unchecked_nodes,
                          minimized |-> minimized_nodes], 0)
           c == Count(m.nodes, root)
       IN /\ nodes' = c.nodes
          /\ unchecked_nodes' = m.unchecked
          /\ minimized_nodes' = m.minimized
    /\ phase' = IF phase = "reopened" THEN "reopened" ELSE "finished"
    /\ lastCall' = [op |-> "finish", arg |-> <<>>, raised |-> FALSE]
    /\ UNCHANGED <<next_id, previous_word, inserted, dist, lev, run>>

\* The cost tables tried with levenshtein_search: the defaults with any
\* deletion table of costs up to the largest budget.
SearchCosts ==
    [ic : {UnitCosts.ic}, dc : [Chars -> 0..MaxBudget], rc : {UnitCosts.rc}]

\* levenshtein_search(graph, query_str, max_distance, ...) on the builder
\* as it is: the function reads graph.root and the nodes, nothing else.
SearchCall(query_str, max_distance, costs) ==
    /\ LET r == Search(nodes, query_str, max_distance, costs)
       IN lastCall' = [op |-> "search", arg |-> query_str, raised |-> FALSE,
                       max_distance |-> max_distance, costs |-> costs,
                       matched |-> r.matched, expanded |-> r.expanded]
    /\ UNCHANGED <<dawgVars, histVars, dist, lev, run>>

\* A search and a raising insert write nothing to the builder, so a search
\* made right after one of them returns what it returns from the state
\* before it: the searches are taken from the initial state and from the
\* states a returning builder call has left, which reaches the same
\* builders and the same results.
SearchAny ==
    /\ lastCall.op # "search"
    /\ ~lastCall.raised
    /\ \E query_str \in Strings, max_distance \in 0..MaxBudget, costs \in SearchCosts :
          SearchCall(query_str, max_distance, costs)

\* The builder alone: any sequence of insert and finish calls.
Next == Insert \/ Finish

Spec == Init /\ [][Next]_vars

\* The builder with searches of the graph it holds.
NextSearch == Insert \/ Finish \/ SearchAny

SpecSearch == Init /\ [][NextSearch]_vars

\* ------------------------------------ levenshtein_search, step by step
\* run = [active, query_str, max_distance, costs, s, pc, word, state, edges]:
\* s the locals stack, searched, matched (and expanded, the nodes whose
\* edges were looped over, in order), pc "while" at the head of the while
\* loop and "for" inside the for loop over the edges of a popped node,
\* word and state the popped entry, edges what the for loop has left.

\* Mutant of PopEntry: the popped node not added to searched.
PopEntryNoSearched(ns, r) ==
    LET top == r.s.stack[Len(r.s.stack)]
        node == top[2]
        popped == [r.s EXCEPT !.stack = SubSeq(r.s.stack, 1, Len(r.s.stack) - 1)]
    IN [r EXCEPT !.s = [popped EXCEPT !.expanded = Append(@, node)],
                 !.pc = IF ns[node].edges = <<>> THEN "while" ELSE "for",
                 !.word = top[1], !.state = top[3], !.edges = ns[node].edges]

\* stack.pop() and the visited test: an entry of a node in searched is
\* dropped, else the node goes to searched and the for loop starts.
PopEntry(ns, r) ==
    LET top == r.s.stack[Len(r.s.stack)]
        node == top[2]
        popped == [r.s EXCEPT !.stack = SubSeq(r.s.stack, 1, Len(r.s.stack) - 1)]
    IN IF node \in r.s.searched
       THEN [r EXCEPT !.s = popped]
       ELSE [r EXCEPT !.s = [popped EXCEPT !.searched = @ \cup {node},
                                           !.expanded = Append(@, node)],
                      !.pc = IF ns[node].edges = <<>> THEN "while" ELSE "for",
                      !.word = top[1], !.state = top[3],
                      !.edges = ns[node].edges]

\* levenshtein_search entered: the automaton made, the stack holding the
\* root with the start state.
SearchBegin(query_str, max_distance, costs) ==
    /\ ~run.active
    /\ run' = [active |-> TRUE, query_str |-> query_str,
               max_distance |-> max_distance, costs |-> costs,
               s |-> [stack |-> <<<<(<<>>), root,
                                    StartState(query_str, max_distance, costs)>>>>,
                      searched |-> {}, matched |-> {}, expanded |-> <<>>],
               pc |-> "while", word |-> <<>>, state |-> <<>>, edges |-> <<>>]
    /\ UNCHANGED <<dawgVars, histVars, lastCall, dist, lev>>

\* As with SearchAny, the searches are taken from the initial state and
\* from the states a returning builder call has left.  The steps taken do
\* not depend on the cost tables and the budget but for the entries pruned:
\* the calls are made with the default tables, and with the budget that
\* prunes most and the one that prunes least.
SearchBeginAny ==
    /\ lastCall.op # "search"
    /\ ~lastCall.raised
    /\ \E query_str \in Strings, max_distance \in {0, MaxBudget}, costs \in {UnitCosts} :
          SearchBegin(query_str, max_distance, costs)

\* while stack: the top entry popped.
SearchPop ==
    /\ run.active
    /\ run.pc = "while"
    /\ run.s.stack # <<>>
    /\ run' = PopEntry(nodes, run)
    /\ UNCHANGED <<dawgVars, histVars, lastCall, dist, lev>>

\* for char in node.edges: the body for the next edge.
SearchEdge ==
    /\ run.active
    /\ run.pc = "for"
    /\ run' = [run EXCEPT
                 !.s = SearchEdges(nodes, run.query_str, run.max_distance,
                                   run.costs, run.s, run.word, run.state,
                                   <<Head(run.edges)>>),
                 !.edges = Tail(run.edges),
                 !.pc = IF Tail(run.edges) = <<>> THEN "while" ELSE "for"]
    /\ UNCHANGED <<dawgVars, histVars, lastCall, dist, lev>>

\* The stack empty: return matched.
SearchReturn ==
    /\ run.active
    /\ run.pc = "while"
    /\ run.s.stack = <<>>
    /\ lastCall' = [op |-> "search", arg |-> run.query_str, raised |-> FALSE,
                    max_distance |-> run.max_distance, costs |-> run.costs,
                    matched |-> run.s.matched, expanded |-> run.s.expanded]
    /\ run' = NoRun
    /\ UNCHANGED <<dawgVars, histVars, dist, lev>>

\* The calls are made one after the other: no builder call while a search
\* is under way.
BuilderCall == ~run.active /\ (Insert \/ Finish)

NextRun ==
    BuilderCall \/ SearchBeginAny \/ SearchPop \/ SearchEdge \/ SearchReturn

\* A search that has been entered keeps running: its loops and its return
\* are steps of the one thread there is.
SpecRun ==
    /\ Init /\ [][NextRun]_vars
    /\ WF_vars(SearchPop) /\ WF_vars(SearchEdge) /\ WF_vars(SearchReturn)

\* ---------------------------------------- levenshtein_distance, alone
SymmetricCosts(t) ==
    /\ t.ic = t.dc
    /\ \A p \in OffDiag : t.rc[p] = t.rc[<<p[2], p[1]>>]

\* The tables whose every value is at most b.
CostsWithin(t, b) ==
    /\ \A c \in Chars : t.ic[c] <= b /\ t.dc[c] <= b
    /\ \A p \in OffDiag : t.rc[p] <= b

\* The cost tables tried with levenshtein_distance: the symmetric ones,
\* the ones of costs 0 and 1, and the defaults with one of the three
\* tables replaced by any table.
DistCosts ==
    {t \in AllCosts :
        \/ SymmetricCosts(t)
        \/ CostsWithin(t, 1)
        \/ (t.dc = UnitCosts.dc /\ t.rc = UnitCosts.rc)
        \/ (t.ic = UnitCosts.ic /\ t.rc = UnitCosts.rc)
        \/ (t.ic = UnitCosts.ic /\ t.dc = UnitCosts.dc)}

InitDist ==
    /\ nodes = [i \in {root} |-> NewNode]
    /\ next_id = 1
    /\ previous_word = <<>>
    /\ unchecked_nodes = <<>>
    /\ minimized_nodes = <<>>
    /\ inserted = {}
    /\ phase = "building"
    /\ lastCall = NoCall
    /\ dist \in [from_str : Strings, to_str : Strings, max_cost : {1, MaxCost},
                 costs : DistCosts, called : {FALSE},
                 result : {[raised |-> FALSE, value |-> -1]}]
    /\ lev = NoLev
    /\ run = NoRun

\* levenshtein_distance(from_str, to_str, max_cost, insert_cost,
\* delete_cost, replace_cost)
DistanceCall ==
    /\ ~dist.called
    /\ dist' = [dist EXCEPT !.called = TRUE,
                            !.result = Distance(dist.from_str, dist.to_str,
                                                dist.max_cost, dist.costs)]
    /\ UNCHANGED <<dawgVars, histVars, lastCall, lev, run>>

NextDist == DistanceCall

SpecDist == InitDist /\ [][NextDist]_vars

\* ------------------------------------ SparseLevenshteinAutomaton, alone
\* An automaton of any pattern, budget and cost tables, its start state
\* taken once and then stepped over the characters of a candidate.
InitLev ==
    /\ nodes = [i \in {root} |-> NewNode]
    /\ next_id = 1
    /\ previous_word = <<>>
    /\ unchecked_nodes = <<>>
    /\ minimized_nodes = <<>>
    /\ inserted = {}
    /\ phase = "building"
    /\ lastCall = NoCall
    /\ dist = NoDist
    /\ lev \in [str : Strings, d : 0..MaxBudget, costs : DistCosts,
                started : {FALSE}, fed : {<<>>}, state : {<<>>}]
    /\ run = NoRun

\* state = automaton.start_state()
StartStateCall ==
    /\ ~lev.started
    /\ lev' = [lev EXCEPT !.started = TRUE,
                          !.state = StartState(lev.str, lev.d, lev.costs)]
    /\ UNCHANGED <<dawgVars, histVars, lastCall, dist, run>>

\* state = automaton.step(char, state)
StepCall(char) ==
    /\ lev.started
    /\ Len(lev.fed) < MaxLen
    /\ lev' = [lev EXCEPT !.fed = Append(lev.fed, char),
                          !.state = Step(lev.str, lev.d, lev.costs, char, lev.state)]
    /\ UNCHANGED <<dawgVars, histVars, lastCall, dist, run>>

NextLev == StartStateCall \/ \E char \in Chars : StepCall(char)

SpecLev == InitLev /\ [][NextLev]_vars

\* ============================================================ reference
\* What the claims compare the program with.

\* The strings spelled by the paths from node n to a terminal node.
RECURSIVE Accepted(_, _)
Accepted(ns, n) ==
    (IF ns[n].final THEN {<<>>} ELSE {})
    \cup UNION {{<<ns[n].edges[i][1]>> \o w : w \in Accepted(ns, ns[n].edges[i][2])} :
                  i \in 1..Len(ns[n].edges)}

\* The nodes reachable from node n.
RECURSIVE Reachable(_, _)
Reachable(ns, n) ==
    {n} \cup UNION {Reachable(ns, ns[n].edges[i][2]) : i \in 1..Len(ns[n].edges)}

\* The structural signature of a node: terminal flag and ordered
\* (label, child) pairs.
Signature(ns, n) == <<ns[n].final, ns[n].edges>>

\* The nodes of the plain trie of a set of words: the root and one node
\* for every prefix of a word.
TrieNodes(W) == {<<>>} \cup UNION {{SubSeq(w, 1, k) : k \in 0..Len(w)} : w \in W}

\* The weighted edit distance table: the least cost of turning the first i
\* characters of p into the first j characters of c, a character of p
\* dropped at its deletion cost, a character of c added at its insertion
\* cost, a character y of p turned into x of c at the cost of (x, y).
RECURSIVE Edit(_, _, _, _, _)
Edit(p, c, costs, i, j) ==
    IF i = 0 /\ j = 0 THEN 0
    ELSE IF j = 0 THEN Edit(p, c, costs, i - 1, 0) + costs.dc[p[i]]
    ELSE IF i = 0 THEN Edit(p, c, costs, 0, j - 1) + costs.ic[c[j]]
    ELSE Min(Edit(p, c, costs, i - 1, j - 1)
               + (IF c[j] = p[i] THEN 0 ELSE costs.rc[<<c[j], p[i]>>]),
             Min(Edit(p, c, costs, i - 1, j) + costs.dc[p[i]],
                 Edit(p, c, costs, i, j - 1) + costs.ic[c[j]]))

WeightedDistance(p, c, costs) == Edit(p, c, costs, Len(p), Len(c))

\* The classical edit distance: every insertion, deletion and substitution
\* costs 1.
RECURSIVE Classical(_, _)
Classical(a, b) ==
    IF a = <<>> THEN Len(b)
    ELSE IF b = <<>> THEN Len(a)
    ELSE Min(Classical(Tail(a), Tail(b)) + (IF Head(a) = Head(b) THEN 0 ELSE 1),
             Min(Classical(Tail(a), b) + 1, Classical(a, Tail(b)) + 1))

RECURSIVE SumOver(_, _)
SumOver(table, s) == IF s = <<>> THEN 0 ELSE table[Head(s)] + SumOver(table, Tail(s))

IsSearch == lastCall.op = "search"

\* The sum of the cached counts of the children along a sequence of edges.
RECURSIVE ChildCounts(_, _)
ChildCounts(ns, edges) ==
    IF edges = <<>> THEN 0
    ELSE ns[edges[1][2]].count + ChildCounts(ns, Tail(edges))

\* =============================================================== claims

\* C1: on a dictionary built by ascending inserts and then finish, for
\* every query, budget and cost tables, levenshtein_search returns exactly
\* the inserted words whose weighted edit distance to the query is within
\* the budget.
C1_SearchReturnsAllWithinBudget ==
    (IsSearch /\ phase = "finished") =>
        lastCall.matched =
            {w \in inserted :
                WeightedDistance(lastCall.arg, w, lastCall.costs)
                    <= lastCall.max_distance}

\* C2: with the default unit costs and max_cost 1, levenshtein_distance
\* returns the classical edit distance of its two strings.
C2_UnitDistanceIsClassical ==
    (dist.called /\ dist.costs = UnitCosts /\ dist.max_cost = 1) =>
        /\ ~dist.result.raised
        /\ dist.result.value = Classical(dist.from_str, dist.to_str)

C2_Witness ==
    /\ dist.called /\ dist.costs = UnitCosts /\ dist.max_cost = 1
    /\ dist.from_str = <<"a", "b">> /\ dist.to_str = <<"b", "a">>
    /\ dist.result = [raised |-> FALSE, value |-> 2]

\* C3: with budget 0 and unit costs, a search of a finished dictionary for
\* w returns {w} when w was inserted and the empty set when it was not.
C3_ExactMatchAtZero ==
    (IsSearch /\ phase = "finished" /\ lastCall.max_distance = 0
       /\ lastCall.costs = UnitCosts) =>
        lastCall.matched =
            (IF lastCall.arg \in inserted THEN {lastCall.arg} ELSE {})

C3_Witness ==
    /\ IsSearch /\ phase = "finished" /\ lastCall.max_distance = 0
    /\ lastCall.costs = UnitCosts
    /\ Cardinality(inserted) = MaxWords
    /\ lastCall.arg \in inserted
    /\ lastCall.matched = {lastCall.arg}
    /\ Len(lastCall.arg) = MaxLen
    /\ Len(lastCall.expanded) = Len(lastCall.arg) + 1
    /\ node_count < Cardinality(TrieNodes(inserted))

\* C4: an insert of a word that is not strictly greater than the previous
\* word (a repeat included) raises, and leaves the graph, the frontier, the
\* interning table and the previous word as they were.
C4_UnorderedInsertRaises ==
    [][(lastCall'.op = "insert" /\ StrLessEq(lastCall'.arg, previous_word)) =>
          /\ lastCall'.raised
          /\ UNCHANGED <<nodes, unchecked_nodes, minimized_nodes,
                         previous_word>>]_vars

C4_Witness ==
    /\ lastCall.op = "insert" /\ lastCall.raised
    /\ lastCall.arg = previous_word
    /\ Len(previous_word) = MaxLen
    /\ unchecked_nodes # <<>>

\* C5: the empty string inserted as the first word of a fresh builder is
\* accepted: the call does not raise and the root becomes terminal.
C5_EmptyWordIsValid ==
    (lastCall.op = "insert" /\ lastCall.arg = <<>> /\ previous_word = <<>>) =>
        /\ ~lastCall.raised
        /\ nodes[root].final
        /\ <<>> \in Accepted(nodes, root)

\* C6: as long as no insert follows a finish, after every insert and after
\* finish the strings the graph accepts are exactly the words inserted.
C6_AcceptsExactlyInserted ==
    phase # "reopened" => Accepted(nodes, root) = inserted

C6_Witness ==
    /\ phase = "finished"
    /\ Cardinality(inserted) = MaxWords
    /\ Cardinality(Reachable(nodes, root)) < Cardinality(TrieNodes(inserted))
    /\ Accepted(nodes, root) = inserted

\* C7: after finish (no insert having followed a finish) the graph is
\* minimal: no two reachable nodes share a signature, node_count is the
\* number of signatures of the non-root reachable nodes plus 1 and the
\* number of reachable nodes, and is at most the node count of the trie.
C7_FinishedGraphMinimal ==
    phase = "finished" =>
        LET R == Reachable(nodes, root)
        IN /\ \A m, n \in R : m # n => Signature(nodes, m) # Signature(nodes, n)
           /\ node_count = Cardinality({Signature(nodes, n) : n \in R \ {root}}) + 1
           /\ node_count = Cardinality(R)
           /\ node_count <= Cardinality(TrieNodes(inserted))

C7_Witness ==
    /\ phase = "finished"
    /\ Cardinality(inserted) = MaxWords
    /\ node_count < Cardinality(TrieNodes(inserted))
    /\ node_count > 2

\* C8 as stated: levenshtein_distance('', S) is the sum of the deletion
\* costs of the characters of S.
C8_EmptyFromIsDeletionSum ==
    (dist.called /\ dist.from_str = <<>>) =>
        /\ ~dist.result.raised
        /\ dist.result.value = SumOver(dist.costs.dc, dist.to_str)

\* C8 amended: levenshtein_distance('', S, max_cost) is the sum of the
\* insertion costs of the characters of S when that sum is at most
\* len(S) * max_cost, and the call raises KeyError when it is more.
C8_EmptyFromIsInsertionSum ==
    (dist.called /\ dist.from_str = <<>>) =>
        IF SumOver(dist.costs.ic, dist.to_str) <= Len(dist.to_str) * dist.max_cost
        THEN /\ ~dist.result.raised
             /\ dist.result.value = SumOver(dist.costs.ic, dist.to_str)
        ELSE dist.result.raised

C8_Witness ==
    /\ dist.called /\ dist.from_str = <<>> /\ Len(dist.to_str) = MaxLen
    /\ ~dist.result.raised
    /\ dist.result.value = SumOver(dist.costs.ic, dist.to_str)
    /\ dist.result.value # SumOver(dist.costs.dc, dist.to_str)
    /\ dist.result.value > 0

\* C9: under symmetric cost tables the distance from A to B is the
\* distance from B to A (the same value, or the same KeyError).
C9_DistanceSymmetric ==
    (dist.called /\ SymmetricCosts(dist.costs)) =>
        dist.result = Distance(dist.to_str, dist.from_str, dist.max_cost, dist.costs)

\* C10: a search of a builder whose frontier still holds entries (insert
\* called, finish not yet) is rejected, not run.
C10_SearchNeedsFinish ==
    (IsSearch /\ unchecked_nodes # <<>>) => lastCall.raised

\* C11: for every pattern, budget, cost tables and candidate, the state
\* reached by start_state and one step per candidate character holds
\* position i with cost c exactly when the unpruned table gives the first
\* i+1 pattern characters against the candidate the cost c <= budget, and
\* is_match holds exactly when the weighted distance is within the budget.
C11_PrunedStateIsTableWithinBudget ==
    lev.started =>
        /\ \A i \in -1..(Len(lev.str) - 1) :
              LET c == Edit(lev.str, lev.fed, lev.costs, i + 1, Len(lev.fed))
              IN /\ HasKey(lev.state, i) <=> c <= lev.d
                 /\ HasKey(lev.state, i) => Get(lev.state, i) = c
        /\ IsMatch(lev.str, lev.d, lev.state)
              <=> WeightedDistance(lev.str, lev.fed, lev.costs) <= lev.d

\* C12: with every cost in 0..max_cost, levenshtein_distance(A, B) does not
\* fail for a pruned last position and returns the weighted edit distance
\* that charges a dropped character of A its deletion cost, an added
\* character of B its insertion cost and a substitution the replacement
\* cost of (B character, A character).
C12_DistanceIsWeightedDistance ==
    (dist.called /\ CostsWithin(dist.costs, dist.max_cost)) =>
        /\ ~dist.result.raised
        /\ dist.result.value =
              WeightedDistance(dist.from_str, dist.to_str, dist.costs)

C12_Witness ==
    /\ dist.called /\ CostsWithin(dist.costs, dist.max_cost)
    /\ dist.from_str = <<"a", "b">> /\ dist.to_str = <<"b", "b">>
    /\ dist.costs.rc[<<"b", "a">>] = 1 /\ dist.costs.rc[<<"a", "b">>] = 0
    /\ dist.costs.ic = [c \in Chars |-> 1] /\ dist.costs.dc = [c \in Chars |-> 1]
    /\ dist.result = [raised |-> FALSE, value |-> 1]

\* C13: after finish on a dictionary built by ascending inserts, every
\* node reachable from the root has a cached count that is 1 if it is
\* terminal plus the sum of its children's counts and is the number of
\* words accepted from that node; the root's count is the number of
\* inserted words.
C13_CountsCachedAfterFinish ==
    phase = "finished" =>
        /\ \A n \in Reachable(nodes, root) :
              /\ nodes[n].count = (IF nodes[n].final THEN 1 ELSE 0)
                                    + ChildCounts(nodes, nodes[n].edges)
              /\ nodes[n].count = Cardinality(Accepted(nodes, n))
        /\ nodes[root].count = Cardinality(inserted)

C13_Witness ==
    /\ phase = "finished"
    /\ Cardinality(inserted) = MaxWords
    /\ \E n \in Reachable(nodes, root) \ {root} :
          nodes[n].count >= 2 /\ nodes[n].final

\* C14: once _minimize has registered a node in the interning table, no
\* later insert or finish changes its terminal flag or its edges, so the
\* signature it was registered under stays its signature; the only nodes
\* a call changes are the root and the children of frontier entries.
C14_RegisteredNodesImmutable ==
    [][/\ \A i \in 1..Len(minimized_nodes) :
            LET n == minimized_nodes[i].key
            IN /\ Signature(nodes', n) = Signature(nodes, n)
               /\ minimized_nodes[i].hash = Str(nodes', n)
               /\ minimized_nodes'[i] = minimized_nodes[i]
       /\ \A n \in DOMAIN nodes :
            Signature(nodes', n) # Signature(nodes, n) =>
                \/ n = root
                \/ \E k \in 1..Len(unchecked_nodes) : unchecked_nodes[k][3] = n
      ]_vars

C14_Witness ==
    /\ lastCall.op = "insert" /\ ~lastCall.raised
    /\ Cardinality(inserted) = MaxWords
    /\ Len(minimized_nodes) >= 1
    /\ \E i \in 1..Len(minimized_nodes) :
          nodes[minimized_nodes[i].key].edges # <<>>
    /\ Len(unchecked_nodes) >= 1

\* C15: while the dictionary is built by ascending inserts and finish has
\* not been called, within insert(word) _minimize leaves the frontier with
\* exactly as many entries as the common prefix of word and the previous
\* word has characters, and when insert returns the frontier has len(word)
\* entries whose labels spell word, the first with the root as parent and
\* each later one with the child of the entry before it as parent.
C15_FrontierIsPathOfLastWord ==
    [][(phase' = "building" /\ lastCall'.op = "insert" /\ ~lastCall'.raised) =>
          LET word == lastCall'.arg
              common_prefix == CommonPrefix(word, previous_word)
              m == Minimize([nodes |-> nodes, unchecked |-> unchecked_nodes,
                             minimized |-> minimized_nodes], common_prefix)
          IN /\ Len(m.unchecked) = common_prefix
             /\ Len(unchecked_nodes') = Len(word)
             /\ \A k \in 1..Len(word) :
                   /\ unchecked_nodes'[k][2] = word[k]
                   /\ unchecked_nodes'[k][1] =
                         (IF k = 1 THEN root ELSE unchecked_nodes'[k - 1][3])
                   /\ HasKey(nodes'[unchecked_nodes'[k][1]].edges, word[k])
                   /\ Get(nodes'[unchecked_nodes'[k][1]].edges, word[k])
                         = unchecked_nodes'[k][3]
             /\ nodes'[unchecked_nodes'[Len(word)][3]].final
      ]_vars

C15_Witness ==
    /\ phase = "building"
    /\ lastCall.op = "insert" /\ ~lastCall.raised
    /\ Cardinality(inserted) = MaxWords
    /\ previous_word = <<"a", "b">>
    /\ <<"a", "a">> \in inserted
    /\ Len(unchecked_nodes) = 2

\* C16: a search of any graph built by insert and finish calls ends: no
\* node has its edges expanded more than once in a search, a stack entry
\* for a node already visited being skipped whatever its state, and every
\* search entered returns, which it does on finding the stack empty.
C16_SearchTerminates ==
    /\ [](run.active =>
            \A i, j \in 1..Len(run.s.expanded) :
                run.s.expanded[i] = run.s.expanded[j] => i = j)
    /\ (run.active ~> ~run.active)

C16_Witness ==
    /\ run.active
    /\ run.pc = "while"
    /\ run.s.stack = <<>>
    /\ phase = "finished"
    /\ run.max_distance = MaxBudget
    /\ Cardinality(inserted) = MaxWords
    /\ Len(nodes[root].edges) = 2
    /\ nodes[root].edges[1][2] = nodes[root].edges[2][2]
    /\ Len(run.s.expanded) = Cardinality(Reachable(nodes, root))
    /\ run.s.matched = Search(nodes, run.query_str, run.max_distance,
                              run.costs).matched

\* C17: on a graph built by ascending inserts, finished or not, for every
\* query, budget and cost tables, every word levenshtein_search returns is
\* an inserted word, and its weighted edit distance to the query is within
\* the budget.  (Whatever calls built the graph, a returned word is accepted
\* by the graph and within the budget.)
C17_SearchIsSound ==
    IsSearch =>
        \A w \in lastCall.matched :
            /\ WeightedDistance(lastCall.arg, w, lastCall.costs)
                  <= lastCall.max_distance
            /\ w \in Accepted(nodes, root)
            /\ phase # "reopened" => w \in inserted

C17_Witness ==
    /\ IsSearch
    /\ phase = "building"
    /\ Cardinality(inserted) = MaxWords
    /\ lastCall.max_distance = 1
    /\ lastCall.costs.dc # UnitCosts.dc
    /\ Cardinality(lastCall.matched) = 1
    /\ \E w \in lastCall.matched :
          WeightedDistance(lastCall.arg, w, lastCall.costs) = 1

\* C18: every state start_state returns or a sequence of step calls from
\* it reaches has its keys within -1..len(pattern)-1 and in strictly
\* ascending order, so that the first key is the smallest position held,
\* and every cost in it is at least 0 and at most the budget.
C18_StateWellFormed ==
    lev.started =>
        /\ \A k \in 1..Len(lev.state) :
              /\ lev.state[k][1] \in -1..(Len(lev.str) - 1)
              /\ lev.state[k][2] >= 0
              /\ lev.state[k][2] <= lev.d
        /\ \A k \in 1..(Len(lev.state) - 1) :
              lev.state[k][1] < lev.state[k + 1][1]

C18_Witness ==
    /\ lev.started
    /\ Len(lev.fed) = MaxLen
    /\ Len(lev.str) = MaxLen
    /\ Len(lev.state) = MaxLen
    /\ lev.state[1][1] = 0
    /\ lev.state[MaxLen][2] = lev.d
    /\ lev.d > 0

\* C19: after any sequence of insert and finish calls whose inserted words
\* are strictly ascending, finish called at any point of it, the strings
\* the graph accepts are exactly the inserted words.
C19_InterleavedAcceptsExactlyInserted ==
    Accepted(nodes, root) = inserted

====
